---------------------------- MODULE Spec2Model ----------------------------
(***************************************************************************)
(* A model of xpathrecord (src/xpathrecord/__init__.py): Field            *)
(* declarations, the Lazy value cell, XPathRecord construction and the    *)
(* records() factory, over a small libxml2-like document.                  *)
(*                                                                         *)
(* Strings are sequences of one-character strings, so that strip(),       *)
(* lower(), int(), float() and strptime() are computed character by        *)
(* character.  Python values are tagged records [tag, v]; None is          *)
(* [tag |-> "None", v |-> 0].                                               *)
(***************************************************************************)
EXTENDS Integers, Sequences, FiniteSets, TLC

(***************************************************************************)
(* Bounds of the model.                                                    *)
(***************************************************************************)
\* Longest list of <bar> elements in a document.
MaxBars == 2
\* Most field accesses by the caller in one run.
MaxAccess == 2
\* Longest list of declared Datetime formats.
MaxFormats == 2
\* Largest number of supplied Boolean tokens per token set.
MaxTokens == 2

(***************************************************************************)
(* Characters and strings.                                                 *)
(***************************************************************************)
DigitChars == <<"0", "1", "2", "3", "4", "5", "6", "7", "8", "9">>

UpperChars == <<"A", "B", "C", "D", "E", "F", "G", "H", "I", "J", "K", "L", "M",
                "N", "O", "P", "Q", "R", "S", "T", "U", "V", "W", "X", "Y", "Z">>

LowerChars == <<"a", "b", "c", "d", "e", "f", "g", "h", "i", "j", "k", "l", "m",
                "n", "o", "p", "q", "r", "s", "t", "u", "v", "w", "x", "y", "z">>

IsDigit(c) == \E k \in 1..Len(DigitChars) : DigitChars[k] = c

DigitVal(c) == (CHOOSE k \in 1..Len(DigitChars) : DigitChars[k] = c) - 1

IsSpace(c) == c \in {" ", "\n", "\t"}

\* str.lower() on one character
LowerChar(c) ==
    IF \E k \in 1..Len(UpperChars) : UpperChars[k] = c
    THEN LowerChars[CHOOSE k \in 1..Len(UpperChars) : UpperChars[k] = c]
    ELSE c

\* str.lower()
Lower(s) == [k \in 1..Len(s) |-> LowerChar(s[k])]

\* str.strip(): drop leading and trailing whitespace
Strip(s) ==
    IF \A k \in 1..Len(s) : IsSpace(s[k]) THEN <<>>
    ELSE LET a == CHOOSE k \in 1..Len(s) :
                     ~IsSpace(s[k]) /\ \A j \in 1..(k - 1) : IsSpace(s[j])
             b == CHOOSE k \in 1..Len(s) :
                     ~IsSpace(s[k]) /\ \A j \in (k + 1)..Len(s) : IsSpace(s[j])
         IN  SubSeq(s, a, b)

\* ''.join(seq of strings)
RECURSIVE Join(_)
Join(ss) == IF ss = <<>> THEN <<>> ELSE Head(ss) \o Join(Tail(ss))

\* the decimal number spelled by the digits s[a..b]
RECURSIVE Num(_, _, _)
Num(s, a, b) == IF b < a THEN 0 ELSE 10 * Num(s, a, b - 1) + DigitVal(s[b])

AllDigits(s, a, b) == \A k \in a..b : IsDigit(s[k])

(***************************************************************************)
(* Python values and outcomes of a call.                                   *)
(***************************************************************************)
None == [tag |-> "None", v |-> 0]

Val(tag, v) == [tag |-> tag, v |-> v]

\* a call either returns a value or raises ValueError
Return(v) == [raised |-> FALSE, value |-> v]

RaiseValueError == [raised |-> TRUE, value |-> None]


(***************************************************************************)
(* The document (libxml2 DOM) and the XPath adapter.                       *)
(*                                                                         *)
(* A document is <foo><name>..</name><bar .../>*</foo>, as SAMPLE_XML of   *)
(* src/test/test_simple.py.  A <bar> carries the attributes arg, num,      *)
(* average, bool, date (each a string, or absent = <<"absent">>) and a     *)
(* list of <stuff> children, each holding one text node.                   *)
(***************************************************************************)
Absent == <<"absent">>

\* the document node, the <foo> element, the i-th <bar> element
DocNode == [kind |-> "doc", ix |-> 0, content |-> <<>>]

FooNode == [kind |-> "foo", ix |-> 0, content |-> <<>>]

BarNode(i) == [kind |-> "bar", ix |-> i, content |-> <<>>]

\* an attribute or text node: only its content matters
LeafNode(s) == [kind |-> "leaf", ix |-> 0, content |-> s]

\* <bar arg="1" num="0" average="1.5" bool="Y" date="20061028"><stuff> x </stuff></bar>
GoodBar ==
    [arg |-> <<"1">>, num |-> <<"0">>, average |-> <<"1", ".", "5">>,
     bool |-> <<"Y">>, date |-> <<"2", "0", "0", "6", "1", "0", "2", "8">>,
     stuff |-> << <<" ", "x", " ">> >>]

\* <bar arg="stuff" date="10/28/2006"/>: rejected by Bar.record_filter
StuffBar ==
    [arg |-> <<"s", "t", "u", "f", "f">>, num |-> Absent, average |-> Absent,
     bool |-> Absent,
     date |-> <<"1", "0", "/", "2", "8", "/", "2", "0", "0", "6">>,
     stuff |-> <<>>]

\* <bar arg=" 2 " num="x" average="bad" bool="whatever" date="Bogus"/>
BadBar ==
    [arg |-> <<" ", "2", " ">>, num |-> <<"x">>, average |-> <<"b", "a", "d">>,
     bool |-> <<"w", "h", "a", "t", "e", "v", "e", "r">>,
     date |-> <<"B", "o", "g", "u", "s">>,
     stuff |-> <<>>]

BarKinds == {GoodBar, StuffBar, BadBar}

\* all lists of at most n <bar> elements
RECURSIVE BarLists(_)
BarLists(n) ==
    IF n = 0 THEN {<<>>}
    ELSE LET shorter == BarLists(n - 1)
         IN  shorter \cup {Append(l, b) : l \in {x \in shorter : Len(x) = n - 1},
                                          b \in BarKinds}

\* the text of <name>
NameText == <<" ", "m", "y", " ", "n", "a", "m", "e", " ">>

AttrOf(b, xpath) ==
    CASE xpath = "@arg" -> b.arg
      [] xpath = "@num" -> b.num
      [] xpath = "@average" -> b.average
      [] xpath = "@bool" -> b.bool
      [] xpath = "@date" -> b.date

\* node.xpathEval(xpath) over the document d: the ordered list of result nodes
XPathEval(d, node, xpath) ==
    CASE xpath = "." -> <<node>>
      [] xpath = "/foo" -> <<FooNode>>
      [] xpath = "//bar" -> [i \in 1..Len(d) |-> BarNode(i)]
      [] xpath = "bar" ->
            IF node.kind = "foo" THEN [i \in 1..Len(d) |-> BarNode(i)] ELSE <<>>
      [] xpath = "name/text()" ->
            IF node.kind = "foo" THEN <<LeafNode(NameText)>> ELSE <<>>
      [] xpath = "stuff/text()" ->
            IF node.kind = "bar"
            THEN [k \in 1..Len(d[node.ix].stuff) |-> LeafNode(d[node.ix].stuff[k])]
            ELSE <<>>
      [] OTHER ->
            IF node.kind = "bar" /\ AttrOf(d[node.ix], xpath) # Absent
            THEN <<LeafNode(AttrOf(d[node.ix], xpath))>>
            ELSE <<>>

\* node.prop(name): the attribute's value, or None
Prop(d, node, name) ==
    IF node.kind = "bar" /\ AttrOf(d[node.ix], name) # Absent
    THEN Val("str", AttrOf(d[node.ix], name))
    ELSE None

(***************************************************************************)
(* TextField, IntField, FloatField.                                        *)
(***************************************************************************)
\* TextField.value on the XPath result xs
TextValue(xs) ==
    Val("str", Strip(Join([k \in 1..Len(xs) |-> Strip(xs[k].content)])))

\* int(s) of a str: whitespace stripped, an optional sign, then digits
IntParse(s) ==
    LET t == Strip(s)
        signed == Len(t) > 0 /\ t[1] \in {"+", "-"}
        a == IF signed THEN 2 ELSE 1
    IN  IF Len(t) >= a /\ AllDigits(t, a, Len(t))
        THEN Return(Val("int", IF signed /\ t[1] = "-"
                               THEN 0 - Num(t, a, Len(t))
                               ELSE Num(t, a, Len(t))))
        ELSE RaiseValueError

\* IntField.value
IntValue(xs) == IntParse(TextValue(xs).v)

\* a digit string without its trailing zeros
RECURSIVE DropTrailingZeros(_)
DropTrailingZeros(s) ==
    IF s # <<>> /\ s[Len(s)] = "0" THEN DropTrailingZeros(SubSeq(s, 1, Len(s) - 1))
    ELSE s

\* float(s) of a str over digits, sign and point: [sign] digits [. digits] or
\* [sign] . digits; the value is kept as sign, whole part and fraction digits
FloatParse(s) ==
    LET t == Strip(s)
        signed == Len(t) > 0 /\ t[1] \in {"+", "-"}
        a == IF signed THEN 2 ELSE 1
        dots == {k \in a..Len(t) : t[k] = "."}
        p == IF dots = {} THEN Len(t) + 1 ELSE CHOOSE k \in dots : TRUE
        nDigits == (p - a) + (IF dots = {} THEN 0 ELSE Len(t) - p)
    IN  IF /\ Cardinality(dots) <= 1
           /\ AllDigits(t, a, p - 1)
           /\ AllDigits(t, p + 1, Len(t))
           /\ nDigits >= 1
        THEN Return(Val("float",
                 [neg |-> signed /\ t[1] = "-",
                  whole |-> Num(t, a, p - 1),
                  frac |-> DropTrailingZeros(SubSeq(t, p + 1, Len(t)))]))
        ELSE RaiseValueError

\* FloatField.value
FloatValue(xs) == FloatParse(TextValue(xs).v)


(***************************************************************************)
(* BooleanField.                                                           *)
(***************************************************************************)
DEFAULT_TRUE_VALUES ==
    << <<"y">>, <<"y", "e", "s">>, <<"t", "r", "u", "e">>, <<"t">>, <<"o", "k">> >>

DEFAULT_FALSE_VALUES ==
    << <<"n">>, <<"n", "o">>, <<"f", "a", "l", "s", "e">>, <<"f">>,
       <<"n", "i", "l">> >>

\* tuple(x.lower() for x in values)
LowerAll(values) == [k \in 1..Len(values) |-> Lower(values[k])]

\* BooleanInit without the lower() of supplied tokens
BooleanInitNoLower(true_values, false_values) ==
    [true_values  |-> IF true_values.tag = "None" THEN DEFAULT_TRUE_VALUES
                      ELSE true_values.v,
     false_values |-> IF false_values.tag = "None" THEN DEFAULT_FALSE_VALUES
                      ELSE false_values.v]

\* BooleanField.__init__: the stored (true_values, false_values); an argument is
\* None or a list of strings
BooleanInit(true_values, false_values) ==
    [true_values  |-> IF true_values.tag = "None" THEN DEFAULT_TRUE_VALUES
                      ELSE LowerAll(true_values.v),
     false_values |-> IF false_values.tag = "None" THEN DEFAULT_FALSE_VALUES
                      ELSE LowerAll(false_values.v)]

\* s in tuple
InTuple(s, tuple) == \E k \in 1..Len(tuple) : tuple[k] = s

\* BooleanField.value of a field declared as decl, on the XPath result xs
BooleanValue(decl, xs) ==
    LET s == Lower(Strip(TextValue(xs).v))
    IN  IF InTuple(s, decl.true_values) THEN Return(Val("bool", TRUE))
        ELSE IF InTuple(s, decl.false_values) THEN Return(Val("bool", FALSE))
        ELSE RaiseValueError

(***************************************************************************)
(* DatetimeField and strptime.  A format is a list of tokens: a directive  *)
(* "%Y", "%m", "%d", "%H", "%M", "%S", or one literal character.           *)
(***************************************************************************)
DEFAULT_FORMATS ==
    << <<"%Y", "-", "%m", "-", "%d", " ", "%H", ":", "%M", ":", "%S">>,
       <<"%Y", "-", "%m", "-", "%d", " ", "%H", ":", "%M">>,
       <<"%Y", "-", "%m", "-", "%d">>,
       <<"%Y", "%m", "%d">>,
       <<"%m", "/", "%d", "/", "%Y">> >>

Directives == {"%Y", "%m", "%d", "%H", "%M", "%S"}

\* the character of s at i, "" past the end
CharAt(s, i) == IF i >= 1 /\ i <= Len(s) THEN s[i] ELSE ""

\* position p starts a match of the regular expression \.\d+ -\d+$
KlugeAt(s, p) ==
    /\ CharAt(s, p) = "."
    /\ \E q \in (p + 2)..(Len(s) - 2) :
          /\ AllDigits(s, p + 1, q - 1)
          /\ s[q] = " " /\ s[q + 1] = "-"
          /\ AllDigits(s, q + 2, Len(s))

\* DatetimeField.__kluge_date: re.sub of the leftmost match by ''
KlugeDate(s) ==
    LET ps == {p \in 1..Len(s) : KlugeAt(s, p)}
    IN  IF ps = {} THEN s
        ELSE SubSeq(s, 1, (CHOOSE p \in ps : \A r \in ps : p <= r) - 1)

\* number of whitespace characters of s from position i on
RECURSIVE SpaceRun(_, _)
SpaceRun(s, i) == IF IsSpace(CharAt(s, i)) THEN 1 + SpaceRun(s, i + 1) ELSE 0

\* the lengths n, n-1, .., 1
RECURSIVE DownFrom(_)
DownFrom(n) == IF n <= 0 THEN <<>> ELSE <<[len |-> n, off |-> 0]>> \o DownFrom(n - 1)

Alt(cond, len, off) == IF cond THEN <<[len |-> len, off |-> off]>> ELSE <<>>

Between(c, lo, hi) == IsDigit(c) /\ DigitVal(c) >= lo /\ DigitVal(c) <= hi

\* the alternatives of one format token that match s at position i, in the order
\* the regular expression of _strptime tries them: [len: characters consumed,
\* off: characters before the digits]
Alts(tok, s, i) ==
    LET c1 == CharAt(s, i)
        c2 == CharAt(s, i + 1)
    IN  CASE tok = "%Y" ->
               Alt(i + 3 <= Len(s) /\ AllDigits(s, i, i + 3), 4, 0)
          [] tok = "%m" ->
               Alt(c1 = "1" /\ Between(c2, 0, 2), 2, 0)
               \o Alt(c1 = "0" /\ Between(c2, 1, 9), 2, 0)
               \o Alt(Between(c1, 1, 9), 1, 0)
          [] tok = "%d" ->
               Alt(c1 = "3" /\ Between(c2, 0, 1), 2, 0)
               \o Alt(Between(c1, 1, 2) /\ IsDigit(c2), 2, 0)
               \o Alt(c1 = "0" /\ Between(c2, 1, 9), 2, 0)
               \o Alt(Between(c1, 1, 9), 1, 0)
               \o Alt(c1 = " " /\ Between(c2, 1, 9), 2, 1)
          [] tok = "%H" ->
               Alt(c1 = "2" /\ Between(c2, 0, 3), 2, 0)
               \o Alt(Between(c1, 0, 1) /\ IsDigit(c2), 2, 0)
               \o Alt(IsDigit(c1), 1, 0)
          [] tok = "%M" ->
               Alt(Between(c1, 0, 5) /\ IsDigit(c2), 2, 0)
               \o Alt(IsDigit(c1), 1, 0)
          [] tok = "%S" ->
               Alt(c1 = "6" /\ Between(c2, 0, 1), 2, 0)
               \o Alt(Between(c1, 0, 5) /\ IsDigit(c2), 2, 0)
               \o Alt(IsDigit(c1), 1, 0)
          [] tok = " " -> DownFrom(SpaceRun(s, i))
          [] OTHER -> Alt(c1 # "" /\ LowerChar(c1) = LowerChar(tok), 1, 0)

\* the first match, by backtracking, of the tokens fmt[k..] against s from
\* position i on: [ok, end: the position after the match, got: the directives'
\* values in format order]
RECURSIVE REMatch(_, _, _, _)
RECURSIVE TryAlts(_, _, _, _, _, _)
REMatch(s, i, fmt, k) ==
    IF k > Len(fmt) THEN [ok |-> TRUE, end |-> i, got |-> <<>>]
    ELSE TryAlts(s, i, fmt, k, Alts(fmt[k], s, i), 1)

TryAlts(s, i, fmt, k, alts, j) ==
    IF j > Len(alts) THEN [ok |-> FALSE, end |-> i, got |-> <<>>]
    ELSE LET a == alts[j]
             rest == REMatch(s, i + a.len, fmt, k + 1)
         IN  IF rest.ok
             THEN [ok |-> TRUE, end |-> rest.end,
                   got |-> IF fmt[k] \in Directives
                           THEN <<[d |-> fmt[k],
                                   n |-> Num(s, i + a.off, i + a.len - 1)]>>
                                \o rest.got
                           ELSE rest.got]
             ELSE TryAlts(s, i, fmt, k, alts, j + 1)

\* the value of directive d among got, or its default
Directive(got, d, default) ==
    IF \E k \in 1..Len(got) : got[k].d = d
    THEN got[CHOOSE k \in 1..Len(got) : got[k].d = d].n
    ELSE default

DaysInMonth(y, m) ==
    IF m \in {4, 6, 9, 11} THEN 30
    ELSE IF m # 2 THEN 31
    ELSE IF y % 4 = 0 /\ (y % 100 # 0 \/ y % 400 = 0) THEN 29
    ELSE 28

\* strptime(s, fmt): the regular expression of fmt must match a prefix of s and
\* leave nothing unconverted, and the fields must make a datetime
Strptime(s, fmt) ==
    LET found == REMatch(s, 1, fmt, 1)
        Y == Directive(found.got, "%Y", 1900)
        m == Directive(found.got, "%m", 1)
        d == Directive(found.got, "%d", 1)
        H == Directive(found.got, "%H", 0)
        M == Directive(found.got, "%M", 0)
        S == Directive(found.got, "%S", 0)
    IN  IF /\ found.ok
           /\ found.end = Len(s) + 1
           /\ Y >= 1
           /\ d <= DaysInMonth(Y, m)
           /\ S <= 59
        THEN Return(Val("datetime",
                 [year |-> Y, month |-> m, day |-> d,
                  hour |-> H, minute |-> M, second |-> S]))
        ELSE RaiseValueError

\* DatetimeField.__init__: the stored tuple of formats; format is a str or a list
DatetimeInit(format) ==
    IF format.tag = "str" THEN <<format.v>> ELSE format.v

\* the loop of DatetimeField.value over the formats fmts[k..]
RECURSIVE TryFormats(_, _, _)
TryFormats(s, fmts, k) ==
    IF k > Len(fmts) THEN RaiseValueError
    ELSE IF ~Strptime(s, fmts[k]).raised THEN Strptime(s, fmts[k])
    ELSE TryFormats(s, fmts, k + 1)

\* DatetimeValue trying the defaults before the declared formats
DatetimeValueDefaultsFirst(decl, xs) ==
    TryFormats(KlugeDate(TextValue(xs).v), DEFAULT_FORMATS \o decl, 1)

\* DatetimeField.value of a field whose stored formats are decl, on xs
DatetimeValue(decl, xs) ==
    TryFormats(KlugeDate(TextValue(xs).v), decl \o DEFAULT_FORMATS, 1)

\* NodeExistsField.value
NodeExistsValue(xs) == Val("bool", 0 < Len(xs))


(***************************************************************************)
(* Record types, after src/test/test_simple.py.  Foo (used on /foo) and    *)
(* Item (used on //bar) have the default record_filter; Bar (used on       *)
(* //bar, and as the sub-record type of Foo) accepts a node whose arg      *)
(* attribute parses as an integer.                                         *)
(***************************************************************************)
Junk == <<"j", "u", "n", "k">>

Types == {"Foo", "Bar", "Item"}

\* the xpath the caller hands to cls.records
FactoryXPath(cls) == IF cls = "Foo" THEN "/foo" ELSE "//bar"

NoOptions == <<>>

FieldDecl(kind, xpath, cls, options) ==
    [kind |-> kind, xpath |-> xpath, cls |-> cls, options |-> options]

FooFields ==
    [name  |-> FieldDecl("Text", "name/text()", "", NoOptions),
     bars  |-> FieldDecl("Children", "bar", "Bar", NoOptions),
     first |-> FieldDecl("FirstChild", "bar", "Bar", NoOptions)]

BarFields ==
    [num       |-> FieldDecl("Int", "@num", "", NoOptions),
     average   |-> FieldDecl("Float", "@average", "", NoOptions),
     flag      |-> FieldDecl("Boolean", "@bool", "", BooleanInit(None, None)),
     date      |-> FieldDecl("Datetime", "@date", "",
                             DatetimeInit(Val("str", Junk))),
     has_stuff |-> FieldDecl("NodeExists", "stuff/text()", "", NoOptions)]

ItemFields ==
    [stuff |-> FieldDecl("Text", "stuff/text()", "", NoOptions)]

\* the Field instances among the attributes of class cls
Schema(cls) ==
    IF cls = "Foo" THEN FooFields
    ELSE IF cls = "Bar" THEN BarFields
    ELSE ItemFields

\* cls.record_filter(node)
RecordFilter(d, cls, node) ==
    IF cls # "Bar" THEN TRUE
    ELSE LET arg == Prop(d, node, "@arg")
         IN  arg.tag # "None" /\ ~IntParse(arg.v).raised

\* XPathRecordInit that leaves no cell unset: every cache is filled at
\* construction
XPathRecordInitEager(cls, node) ==
    [cls |-> cls, node |-> node,
     cache |-> [f \in DOMAIN Schema(cls) |-> Val("str", <<>>)]]

\* Lazy.__init__ for every Field of the class: XPathRecord.__init__
XPathRecordInit(cls, node) ==
    [cls |-> cls, node |-> node,
     cache |-> [f \in DOMAIN Schema(cls) |-> None]]

(***************************************************************************)
(* Generators.  A generator object holds the position of its loop: the     *)
(* XPath result xs (evaluated by the first next()), the index i of the     *)
(* node it last yielded for, and the ids of the records it has yielded.    *)
(***************************************************************************)
NoCell == [rec |-> 0, field |-> ""]

NewGenerator(kind, cls, node, xpath, owner) ==
    [kind |-> kind, cls |-> cls, node |-> node, xpath |-> xpath,
     owner |-> owner, started |-> FALSE, xs |-> <<>>, i |-> 0,
     done |-> FALSE, out |-> <<>>]

\* the loop of XPathRecord.records from xs[i + 1] on: the index of the next
\* node the filter accepts, Len(xs) + 1 when the loop runs off the end
RECURSIVE NextAccepted(_, _, _, _)
NextAccepted(d, cls, xs, i) ==
    IF i + 1 > Len(xs) THEN Len(xs) + 1
    ELSE IF RecordFilter(d, cls, xs[i + 1]) THEN i + 1
    ELSE NextAccepted(d, cls, xs, i + 1)

Min(a, b) == IF a <= b THEN a ELSE b

\* the generator gen after a next() that evaluated or reused xs and ran to
\* index j of it
Advance(gen, xs, j, visited) ==
    [yields |-> j <= Len(xs),
     outer |-> IF j <= Len(xs) THEN xs[j] ELSE DocNode,
     xevals |-> (IF gen.started THEN 0 ELSE 1) + visited,
     gen |-> [gen EXCEPT !.started = TRUE, !.xs = xs,
                         !.i = IF j <= Len(xs) THEN j ELSE Len(xs),
                         !.done = j > Len(xs)]]

GenXs(d, gen) ==
    IF gen.started THEN gen.xs ELSE XPathEval(d, gen.node, gen.xpath)

\* RecordsStep without the call of record_filter
RecordsStepNoFilter(d, gen, xs) ==
    Advance(gen, xs, Min(gen.i, Len(xs)) + 1, 0)

RecordsStep(d, gen, xs) ==
    Advance(gen, xs, NextAccepted(d, gen.cls, xs, gen.i), 0)

WithNode(step, node) ==
    [yields |-> step.yields, node |-> node, xevals |-> step.xevals,
     gen |-> step.gen]

RecordsYield(step) == WithNode(step, step.outer)

\* one next() of the generator of cls.records(node, xpath)
RecordsNext(d, gen) == RecordsYield(RecordsStep(d, gen, GenXs(d, gen)))

\* the nested loops of ChildrenField.value and FirstChildField.value from
\* xs[i + 1] on: the index of the next outer node n for which
\* cls.records(n, '.') yields a record, Len(xs) + 1 when there is none
RECURSIVE ScanOuter(_, _, _, _)
ScanOuter(d, cls, xs, i) ==
    IF i + 1 > Len(xs) THEN Len(xs) + 1
    ELSE LET inner == XPathEval(d, xs[i + 1], ".")
         IN  IF NextAccepted(d, cls, inner, 0) <= Len(inner) THEN i + 1
             ELSE ScanOuter(d, cls, xs, i + 1)

\* the node cls.records(n, '.') yields its record for
InnerNode(d, cls, n) ==
    LET inner == XPathEval(d, n, ".")
    IN  inner[NextAccepted(d, cls, inner, 0)]

\* one evaluation of '.' for every outer node the loop visits
ChildrenAdvance(gen, xs, j) == Advance(gen, xs, j, Min(j, Len(xs)) - gen.i)

\* ChildrenStep that ends after the first sub-record
ChildrenStepFirstOnly(d, gen, xs) ==
    ChildrenAdvance(gen, xs, IF gen.i = 0 THEN ScanOuter(d, gen.cls, xs, 0)
                             ELSE Len(xs) + 1)

ChildrenStep(d, gen, xs) ==
    ChildrenAdvance(gen, xs, ScanOuter(d, gen.cls, xs, gen.i))

ChildrenYield(d, cls, step) ==
    WithNode(step, IF step.yields THEN InnerNode(d, cls, step.outer) ELSE DocNode)

\* one next() of the generator of ChildrenField.value
ChildrenNext(d, gen) ==
    ChildrenYield(d, gen.cls, ChildrenStep(d, gen, GenXs(d, gen)))

FirstFound(d, cls, xs, j) ==
    [found |-> j <= Len(xs),
     node |-> IF j <= Len(xs) THEN InnerNode(d, cls, xs[j]) ELSE DocNode,
     xevals |-> 1 + Min(j, Len(xs))]

\* the index of the last outer node that yields a record, Len(xs) + 1 if none
LastOuter(d, cls, xs) ==
    LET hits == {j \in 1..Len(xs) : ScanOuter(d, cls, xs, j - 1) = j}
    IN  IF hits = {} THEN Len(xs) + 1
        ELSE CHOOSE j \in hits : \A k \in hits : k <= j

\* FirstScan returning the last sub-record instead of the first
FirstScanLast(d, cls, xs) == FirstFound(d, cls, xs, LastOuter(d, cls, xs))

FirstScan(d, cls, xs) == FirstFound(d, cls, xs, ScanOuter(d, cls, xs, 0))

\* FirstChildField.value: the node of the record returned, if one is
FirstChildValue(d, cls, node, xpath) ==
    FirstScan(d, cls, XPathEval(d, node, xpath))

Scalar(outcome) ==
    [outcome |-> outcome, xevals |-> 1, newRecs |-> <<>>, newGens |-> <<>>]

FirstChildResult(cls, fc, nextRec) ==
    [outcome |-> IF fc.found THEN Return(Val("record", nextRec))
                 ELSE Return(None),
     xevals |-> fc.xevals,
     newRecs |-> IF fc.found THEN <<XPathRecordInit(cls, fc.node)>> ELSE <<>>,
     newGens |-> <<>>]

FieldValueOn(d, decl, node, owner, nextRec, nextGen, xs) ==
    CASE decl.kind = "Text" -> Scalar(Return(TextValue(xs)))
      [] decl.kind = "Int" -> Scalar(IntValue(xs))
      [] decl.kind = "Float" -> Scalar(FloatValue(xs))
      [] decl.kind = "Boolean" -> Scalar(BooleanValue(decl.options, xs))
      [] decl.kind = "Datetime" -> Scalar(DatetimeValue(decl.options, xs))
      [] decl.kind = "NodeExists" -> Scalar(Return(NodeExistsValue(xs)))
      [] decl.kind = "Children" ->
           [outcome |-> Return(Val("generator", nextGen)), xevals |-> 0,
            newRecs |-> <<>>,
            newGens |-> <<NewGenerator("children", decl.cls, node,
                                       decl.xpath, owner)>>]
      [] decl.kind = "FirstChild" ->
           FirstChildResult(decl.cls, FirstScan(d, decl.cls, xs), nextRec)

\* field.value(dom) for the Field decl: the outcome, the adapter evaluations
\* it makes, and the record or generator object it creates (given the ids the
\* next record and the next generator get)
FieldValue(d, decl, node, owner, nextRec, nextGen) ==
    FieldValueOn(d, decl, node, owner, nextRec, nextGen,
                 XPathEval(d, node, decl.xpath))

\* LazyCall that stores a fallback when field.value raises
LazyCallCachesFailure(cache, computed) ==
    IF cache.tag = "None"
    THEN [evaluated |-> TRUE,
          cache |-> IF computed.raised THEN Val("str", <<>>) ELSE computed.value,
          outcome |-> computed]
    ELSE [evaluated |-> FALSE, cache |-> cache, outcome |-> Return(cache)]

\* Python truth value of a cached value
Falsy(v) ==
    \/ v.tag = "None"
    \/ v.tag = "bool" /\ ~v.v
    \/ v.tag = "int" /\ v.v = 0
    \/ v.tag = "str" /\ v.v = <<>>

\* LazyCall testing "not self.__cache" instead of "self.__cache is None"
LazyCallFalsy(cache, computed) ==
    IF Falsy(cache)
    THEN [evaluated |-> TRUE,
          cache |-> IF computed.raised THEN cache ELSE computed.value,
          outcome |-> computed]
    ELSE [evaluated |-> FALSE, cache |-> cache, outcome |-> Return(cache)]

\* Lazy.__call__ on a cell whose cache is cache, where field.value(dom) would
\* have the outcome computed: whether value is called, the cache afterwards
\* and the outcome of the call
LazyCall(cache, computed) ==
    IF cache.tag = "None"
    THEN [evaluated |-> TRUE,
          cache |-> IF computed.raised THEN cache ELSE computed.value,
          outcome |-> computed]
    ELSE [evaluated |-> FALSE, cache |-> cache, outcome |-> Return(cache)]


(***************************************************************************)
(* State.                                                                  *)
(*   doc      the <bar> elements of the parsed document (never changed)    *)
(*   recs     the XPathRecord objects constructed so far; a record's id is *)
(*            its index; cache[f] is the cache of the Lazy cell of field f *)
(*   gens     the generator objects created so far (by records() and by    *)
(*            ChildrenField.value)                                        *)
(*   handles  what the caller got from each access of a Children field:    *)
(*            the generator, the records it took from it, whether it met   *)
(*            StopIteration, and whether a sequence got earlier from the   *)
(*            same cell had been iterated by then (after)                  *)
(*   obs      per cell, what happened to it: accesses, calls of            *)
(*            field.value, adapter evaluations, accesses that raised,      *)
(*            accesses that returned, the first value returned, the number *)
(*            of the first access that returned a value other than None    *)
(*   lastCall the caller's last operation and its outcome                  *)
(*   used     the caller's field accesses so far                           *)
(*   pure     for SpecDatetime and SpecBoolean: one Field declaration, the *)
(*            text of the node it is evaluated on, and the outcome         *)
(***************************************************************************)
VARIABLES doc, recs, gens, handles, obs, lastCall, used, pure

vars == <<doc, recs, gens, handles, obs, lastCall, used, pure>>

NoObs ==
    [accesses |-> 0, calls |-> 0, xevals |-> 0, errors |-> 0, returns |-> 0,
     firstRet |-> None, firstNonNone |-> 0]

ObsInit(cls) == [f \in DOMAIN Schema(cls) |-> NoObs]

NoCall ==
    [op |-> "none", cell |-> NoCell, raised |-> FALSE, value |-> None,
     xevals |-> 0, prior |-> FALSE]

Idle == [kind |-> "idle"]

Init ==
    /\ doc \in BarLists(MaxBars)
    /\ recs = <<>>
    /\ gens = <<>>
    /\ handles = <<>>
    /\ obs = <<>>
    /\ lastCall = NoCall
    /\ used = 0
    /\ pure = Idle

\* gen = cls.records(dom, xpath): the generator object is created, none of its
\* body runs.  A run follows one call of the factory on the parsed document.
CallRecords(cls) ==
    /\ gens = <<>>
    /\ gens' = Append(gens, NewGenerator("records", cls, DocNode,
                                         FactoryXPath(cls), NoCell))
    /\ lastCall' = [NoCall EXCEPT !.op = "records"]
    /\ UNCHANGED <<doc, recs, handles, obs, used, pure>>

\* what one next() of a records() generator leaves behind: step is the
\* outcome of RecordsNext
YieldRecord(g, step) ==
    /\ recs' = IF step.yields
               THEN Append(recs, XPathRecordInit(gens[g].cls, step.node))
               ELSE recs
    /\ obs' = IF step.yields THEN Append(obs, ObsInit(gens[g].cls)) ELSE obs
    /\ gens' = [gens EXCEPT ![g] =
                   IF step.yields
                   THEN [step.gen EXCEPT !.out = Append(@, Len(recs) + 1)]
                   ELSE step.gen]
    /\ lastCall' = [NoCall EXCEPT
                       !.op = "next",
                       !.value = IF step.yields THEN Val("record", Len(recs) + 1)
                                 ELSE None,
                       !.xevals = step.xevals]

\* next(gen) on a generator of records(): runs to the next yield cls(node), or
\* to the end
NextRecords(g) ==
    /\ gens[g].kind = "records"
    /\ ~gens[g].done
    /\ YieldRecord(g, RecordsNext(doc, gens[g]))
    /\ UNCHANGED <<doc, handles, used, pure>>

\* Lazy.__call__ with what it calls: lz is the outcome of LazyCall and fv that
\* of field.value, which takes effect only if the cell called it
LazyEffect(lz, fv) ==
    [evaluated |-> lz.evaluated, cache |-> lz.cache, outcome |-> lz.outcome,
     xevals |-> IF lz.evaluated THEN fv.xevals ELSE 0,
     newRecs |-> IF lz.evaluated THEN fv.newRecs ELSE <<>>,
     newGens |-> IF lz.evaluated THEN fv.newGens ELSE <<>>]

LazyAccess(cache, fv) == LazyEffect(LazyCall(cache, fv.outcome), fv)

\* what the access a of cell (r, f) leaves behind; o is what was observed of
\* the cell before
Observe(o, a) ==
    [accesses |-> o.accesses + 1,
     calls |-> o.calls + (IF a.evaluated THEN 1 ELSE 0),
     xevals |-> o.xevals + a.xevals,
     errors |-> o.errors + (IF a.outcome.raised THEN 1 ELSE 0),
     returns |-> o.returns + (IF a.outcome.raised THEN 0 ELSE 1),
     firstRet |-> IF o.returns = 0 /\ ~a.outcome.raised
                  THEN a.outcome.value ELSE o.firstRet,
     firstNonNone |-> IF /\ o.firstNonNone = 0
                         /\ ~a.outcome.raised
                         /\ a.outcome.value.tag # "None"
                      THEN o.accesses + 1 ELSE o.firstNonNone]

\* the caller has called next() on a sequence it got from cell (r, f)
Iterated(r, f) ==
    \E h \in 1..Len(handles) :
        /\ gens[handles[h].gen].owner = [rec |-> r, field |-> f]
        /\ (handles[h].got > 0 \/ handles[h].done)

AccessEffect(r, f, a) ==
    /\ recs' = [recs EXCEPT ![r].cache[f] = a.cache] \o a.newRecs
    /\ gens' = gens \o a.newGens
    /\ handles' = IF ~a.outcome.raised /\ a.outcome.value.tag = "generator"
                  THEN Append(handles,
                              [gen |-> a.outcome.value.v, got |-> 0,
                               done |-> FALSE, after |-> Iterated(r, f)])
                  ELSE handles
    /\ obs' = [obs EXCEPT ![r][f] = Observe(@, a)]
              \o [k \in 1..Len(a.newRecs) |-> ObsInit(a.newRecs[k].cls)]
    /\ lastCall' = [op |-> "access", cell |-> [rec |-> r, field |-> f],
                    raised |-> a.outcome.raised, value |-> a.outcome.value,
                    xevals |-> a.xevals, prior |-> obs[r][f].returns > 0]

\* rec.f(): Lazy.__call__ of the cell of field f of record r
Access(r, f) ==
    /\ used < MaxAccess
    /\ AccessEffect(r, f,
          LazyAccess(recs[r].cache[f],
                     FieldValue(doc, Schema(recs[r].cls)[f], recs[r].node,
                                [rec |-> r, field |-> f],
                                Len(recs) + 1, Len(gens) + 1)))
    /\ used' = used + 1
    /\ UNCHANGED <<doc, pure>>

\* what one next() on the handle h of generator g leaves behind: step is the
\* outcome of ChildrenNext, stopped whether next() raised StopIteration
TakeChild(h, g, step, stopped) ==
    /\ recs' = IF stopped THEN recs
               ELSE Append(recs, XPathRecordInit(gens[g].cls, step.node))
    /\ obs' = [(IF stopped THEN obs ELSE Append(obs, ObsInit(gens[g].cls)))
                  EXCEPT ![gens[g].owner.rec][gens[g].owner.field].xevals =
                             @ + (IF gens[g].done THEN 0 ELSE step.xevals)]
    /\ gens' = IF gens[g].done THEN gens
               ELSE [gens EXCEPT ![g] =
                        IF step.yields
                        THEN [step.gen EXCEPT !.out = Append(@, Len(recs) + 1)]
                        ELSE step.gen]
    /\ handles' = [handles EXCEPT ![h] =
                      IF stopped THEN [@ EXCEPT !.done = TRUE]
                      ELSE [@ EXCEPT !.got = @ + 1]]
    /\ lastCall' = [NoCall EXCEPT
                       !.op = "next", !.cell = gens[g].owner,
                       !.value = IF stopped THEN None
                                 ELSE Val("record", Len(recs) + 1),
                       !.xevals = IF gens[g].done THEN 0 ELSE step.xevals]

Stopped(gen, step) == gen.done \/ ~step.yields

NextStep(h, g, step) == TakeChild(h, g, step, Stopped(gens[g], step))

\* next(seq) on what an access of a Children field returned
NextChild(h) ==
    /\ ~handles[h].done
    /\ NextStep(h, handles[h].gen, ChildrenNext(doc, gens[handles[h].gen]))
    /\ UNCHANGED <<doc, used, pure>>

Next ==
    \/ \E cls \in Types : CallRecords(cls)
    \/ \E g \in 1..Len(gens) : NextRecords(g)
    \/ \E r \in 1..Len(recs) : \E f \in DOMAIN Schema(recs[r].cls) : Access(r, f)
    \/ \E h \in 1..Len(handles) : NextChild(h)

Spec == Init /\ [][Next]_vars


(***************************************************************************)
(* DatetimeField on its own: a field declared with format, evaluated once  *)
(* on a node whose XPath result is one attribute holding text.             *)
(***************************************************************************)
DayFirst == <<"%d", "/", "%m", "/", "%Y">>

MonthFirst == <<"%m", "/", "%d", "/", "%Y">>

FormatChoices == {Junk, DayFirst, MonthFirst}

\* all lists of at most n elements of S
RECURSIVE ListsUpTo(_, _)
ListsUpTo(S, n) ==
    IF n = 0 THEN {<<>>}
    ELSE LET shorter == ListsUpTo(S, n - 1)
         IN  shorter \cup {Append(l, x) : l \in {y \in shorter : Len(y) = n - 1},
                                          x \in S}

\* the format argument of a declaration: a str, or a list of str
DeclaredFormats ==
    {Val("str", f) : f \in FormatChoices}
    \cup {Val("list", l) : l \in ListsUpTo(FormatChoices, MaxFormats)}

DateTexts ==
    { <<"2", "0", "0", "6", "1", "0", "2", "8">>,
      <<"2", "0", "0", "6", "-", "1", "0", "-", "2", "8">>,
      <<"2", "0", "0", "6", "-", "1", "0", "-", "2", "8", " ",
        "0", "0", ":", "0", "0", ":", "0", "0">>,
      <<"2", "0", "0", "6", "-", "1", "0", "-", "2", "8", " ",
        "0", "9", ":", "0", "5">>,
      <<"2", "0", "0", "6", "-", "1", "0", "-", "2", "8", " ",
        "0", "9", ":", "0", "5", ":", "0", "7", ".", "1", "2", " ", "-", "0", "5">>,
      <<"1", "0", "/", "1", "1", "/", "2", "0", "0", "6">>,
      <<"1", "3", "/", "1", "1", "/", "2", "0", "0", "6">>,
      <<" ", "1", "0", "/", "2", "8", "/", "2", "0", "0", "6", " ">>,
      <<"2", "0", "0", "6", "-", "0", "2", "-", "3", "0">>,
      <<"B", "o", "g", "u", "s", " ", "F", "o", "r", "m", "a", "t">>,
      <<"J", "u", "n", "k">>,
      <<>> }

InitPure ==
    /\ doc = <<>>
    /\ recs = <<>>
    /\ gens = <<>>
    /\ handles = <<>>
    /\ obs = <<>>
    /\ lastCall = NoCall
    /\ used = 0

InitDatetime ==
    /\ InitPure
    /\ pure \in {[kind |-> "Datetime", format |-> fm, text |-> tx,
                  called |-> FALSE, outcome |-> Return(None)] :
                    fm \in DeclaredFormats, tx \in DateTexts}

\* field = DatetimeField(xpath, format); field.value(dom)
DatetimeAccess ==
    /\ pure.kind = "Datetime"
    /\ ~pure.called
    /\ pure' = [pure EXCEPT
                   !.called = TRUE,
                   !.outcome = DatetimeValue(DatetimeInit(pure.format),
                                             <<LeafNode(pure.text)>>)]
    /\ UNCHANGED <<doc, recs, gens, handles, obs, lastCall, used>>

NextDatetime == DatetimeAccess

SpecDatetime == InitDatetime /\ [][NextDatetime]_vars

(***************************************************************************)
(* BooleanField on its own.                                                *)
(***************************************************************************)
TokenChoices == {<<>>, <<"Y">>, <<"n", "O">>}

\* a true_values or false_values argument: None, or a list of str
DeclaredTokens ==
    {None} \cup {Val("list", l) : l \in ListsUpTo(TokenChoices, MaxTokens)}

BoolTexts ==
    { <<"Y">>, <<"y">>, <<" ", "N", " ">>, <<"n", "o">>, <<"N", "O">>,
      <<"O", "k">>, <<"N", "i", "l">>, <<"T", "R", "U", "E">>,
      <<"w", "h", "a", "t", "e", "v", "e", "r">>, <<>> }

InitBoolean ==
    /\ InitPure
    /\ pure \in {[kind |-> "Boolean", true_values |-> tv, false_values |-> fv,
                  text |-> tx, called |-> FALSE, outcome |-> Return(None)] :
                    tv \in DeclaredTokens, fv \in DeclaredTokens, tx \in BoolTexts}

\* field = BooleanField(xpath, true_values, false_values); field.value(dom)
BooleanAccess ==
    /\ pure.kind = "Boolean"
    /\ ~pure.called
    /\ pure' = [pure EXCEPT
                   !.called = TRUE,
                   !.outcome = BooleanValue(
                                   BooleanInit(pure.true_values, pure.false_values),
                                   <<LeafNode(pure.text)>>)]
    /\ UNCHANGED <<doc, recs, gens, handles, obs, lastCall, used>>

NextBoolean == BooleanAccess

SpecBoolean == InitBoolean /\ [][NextBoolean]_vars


(***************************************************************************)
(* Claims about single field values.                                       *)
(***************************************************************************)
\* the five built-in formats as the specification lists them
ListedDefaults ==
    << <<"%Y", "-", "%m", "-", "%d", " ", "%H", ":", "%M", ":", "%S">>,
       <<"%Y", "-", "%m", "-", "%d", " ", "%H", ":", "%M">>,
       <<"%Y", "-", "%m", "-", "%d">>,
       <<"%Y", "%m", "%d">>,
       <<"%m", "/", "%d", "/", "%Y">> >>

\* the candidate formats of the declaration under SpecDatetime, in order
CandidateFormats ==
    (IF pure.format.tag = "str" THEN <<pure.format.v>> ELSE pure.format.v)
    \o ListedDefaults

CleanedText == KlugeDate(TextValue(<<LeafNode(pure.text)>>).v)

AcceptingFormats ==
    {k \in 1..Len(CandidateFormats) :
        ~Strptime(CleanedText, CandidateFormats[k]).raised}

\* C8: a Datetime field's value is the parse of the cleaned text under the
\* first format, in the order declared formats (a single pattern being a list
\* of one) then the five defaults, that accepts it; it raises ValueError
\* exactly when no format of that list accepts the text.
C8_FirstAcceptingFormat ==
    (pure.kind = "Datetime" /\ pure.called) =>
        IF AcceptingFormats = {} THEN pure.outcome.raised
        ELSE pure.outcome =
                Strptime(CleanedText,
                         CandidateFormats[CHOOSE k \in AcceptingFormats :
                                             \A j \in AcceptingFormats : k <= j])

\* a field declared with format = "junk", which does not match, got its value
\* from a default
C8_Witness ==
    /\ pure.kind = "Datetime"
    /\ pure.called
    /\ pure.format = Val("str", Junk)
    /\ Strptime(CleanedText, Junk).raised
    /\ ~pure.outcome.raised

ListedTrue ==
    {<<"y">>, <<"y", "e", "s">>, <<"t", "r", "u", "e">>, <<"t">>, <<"o", "k">>}

ListedFalse ==
    {<<"n">>, <<"n", "o">>, <<"f", "a", "l", "s", "e">>, <<"f">>,
     <<"n", "i", "l">>}

TokenSet(arg, default) ==
    IF arg.tag = "None" THEN default
    ELSE {Lower(arg.v[k]) : k \in 1..Len(arg.v)}

BoolText == Lower(Strip(TextValue(<<LeafNode(pure.text)>>).v))

\* C9: with t the lower-cased, trimmed Text result, a Boolean field's value is
\* true if t is in its true-token set, otherwise false if t is in its
\* false-token set, otherwise a ValueError; a token set is the default unless
\* supplied, and a supplied set matches whatever the letter case of its tokens.
C9_BooleanTokens ==
    (pure.kind = "Boolean" /\ pure.called) =>
        pure.outcome =
            IF BoolText \in TokenSet(pure.true_values, ListedTrue)
            THEN Return(Val("bool", TRUE))
            ELSE IF BoolText \in TokenSet(pure.false_values, ListedFalse)
            THEN Return(Val("bool", FALSE))
            ELSE RaiseValueError

\* a supplied true token in upper case matched lower-case text
C9_Witness ==
    /\ pure.kind = "Boolean"
    /\ pure.called
    /\ pure.true_values = Val("list", << <<"Y">> >>)
    /\ pure.text = <<"y">>
    /\ pure.outcome = Return(Val("bool", TRUE))


(***************************************************************************)
(* Claims about records, Lazy cells and generators (Spec).                 *)
(***************************************************************************)
CellsOf(r) == DOMAIN Schema(recs[r].cls)

DeclOf(r, f) == Schema(recs[r].cls)[f]

\* the nodes among xs that the filter of cls accepts, in order
Accepted(cls, xs) ==
    LET Test(n) == RecordFilter(doc, cls, n)
    IN  SelectSeq(xs, Test)

\* the records with ids out are bound, in order, to the first nodes of want
BoundInOrder(out, cls, want) ==
    /\ Len(out) <= Len(want)
    /\ \A k \in 1..Len(out) :
          recs[out[k]].node = want[k] /\ recs[out[k]].cls = cls

\* C1: once an access of a non-Children cell has returned, every later access
\* returns the identical value and makes no adapter evaluation.
C1_CachedAfterFirstReturn ==
    (/\ lastCall.op = "access"
     /\ lastCall.prior
     /\ DeclOf(lastCall.cell.rec, lastCall.cell.field).kind # "Children")
    => /\ ~lastCall.raised
       /\ lastCall.value = obs[lastCall.cell.rec][lastCall.cell.field].firstRet
       /\ lastCall.xevals = 0

\* the number of sub-records the Children field of generator g has to yield
ChildCount(g) ==
    Len(Accepted(gens[g].cls, XPathEval(doc, gens[g].node, gens[g].xpath)))

\* C2: after a sequence returned by a Children cell has been iterated, fully
\* or partly, what a further access of the cell returns is a fresh sequence:
\* iterated from its start to its end it yields as many sub-records as there
\* are accepted matches (as the first sequence did).
C2_FreshEqualLength ==
    \A h \in 1..Len(handles) :
        (handles[h].after /\ handles[h].done)
        => handles[h].got = ChildCount(handles[h].gen)

\* C3: an access whose value computation raises ValueError raises it to the
\* caller, leaves the cell unset, and every access of such a cell has called
\* field.value and raised.
C3_FailureNotCached ==
    /\ \A r \in 1..Len(recs) : \A f \in CellsOf(r) :
          obs[r][f].errors > 0 =>
             /\ recs[r].cache[f] = None
             /\ obs[r][f].errors = obs[r][f].accesses
             /\ obs[r][f].calls = obs[r][f].accesses
    /\ \A r \in 1..Len(recs) : \A f \in CellsOf(r) :
          (/\ obs[r][f].accesses > 0
           /\ DeclOf(r, f).kind \in {"Int", "Float", "Boolean", "Datetime"}
           /\ FieldValue(doc, DeclOf(r, f), recs[r].node, NoCell, 0, 0).outcome.raised)
          => obs[r][f].errors = obs[r][f].accesses
    /\ (lastCall.op = "access" /\ lastCall.raised) =>
          obs[lastCall.cell.rec][lastCall.cell.field].errors > 0

\* a cell was accessed twice and raised both times
C3_Witness ==
    \E r \in 1..Len(recs) : \E f \in CellsOf(r) :
        /\ obs[r][f].errors >= 2
        /\ obs[r][f].calls >= 2
        /\ lastCall.raised

\* C4: records(root, xpath) yields one record per candidate node the filter
\* of the type accepts, in result order, each bound to its node, none for a
\* rejected node; with the default filter, one per candidate.
C4_FactoryFilters ==
    \A g \in 1..Len(gens) :
        gens[g].kind = "records" =>
            LET xs == XPathEval(doc, gens[g].node, gens[g].xpath)
                want == Accepted(gens[g].cls, xs)
            IN  /\ BoundInOrder(gens[g].out, gens[g].cls, want)
                /\ gens[g].done => Len(gens[g].out) = Len(want)
                /\ (gens[g].done /\ gens[g].cls # "Bar") =>
                      Len(gens[g].out) = Len(xs)

\* Bar.records over two or more candidates ended with a record for some and
\* none for others
C4_Witness ==
    \E g \in 1..Len(gens) :
        /\ gens[g].kind = "records"
        /\ gens[g].cls = "Bar"
        /\ gens[g].done
        /\ Len(gens[g].out) >= 1
        /\ Len(gens[g].out) < Len(gens[g].xs)

\* C5: constructing records evaluates no field and raises nothing: a cell
\* that was never accessed is unset and no value was computed or XPath
\* evaluated for it, and only a field access raises ValueError.
C5_ConstructionIsLazy ==
    /\ \A r \in 1..Len(recs) : \A f \in CellsOf(r) :
          obs[r][f].accesses = 0 =>
             /\ recs[r].cache[f] = None
             /\ obs[r][f].calls = 0
             /\ obs[r][f].xevals = 0
    /\ lastCall.raised => lastCall.op = "access"

\* the factory was enumerated to its end over a document holding a <bar>
\* accepted by Bar with malformed num; no field of its record was accessed
C5_Witness ==
    \E g \in 1..Len(gens), r \in 1..Len(recs) :
        /\ gens[g].kind = "records"
        /\ gens[g].done
        /\ recs[r].cls = "Bar"
        /\ FieldValue(doc, BarFields.num, recs[r].node, NoCell, 0, 0).outcome.raised
        /\ \A f \in CellsOf(r) : obs[r][f].accesses = 0

\* C6: the value of a FirstChild field is the record bound to the first outer
\* match the sub-type's filter accepts, which is the first sub-record a
\* Children field with the same xpath and sub-type yields, and None when there
\* is no such match.
C6_FirstChildIsFirstOfChildren ==
    \A r \in 1..Len(recs) : \A f \in CellsOf(r) :
        (DeclOf(r, f).kind = "FirstChild" /\ obs[r][f].accesses > 0) =>
            LET want == Accepted(DeclOf(r, f).cls,
                                 XPathEval(doc, recs[r].node, DeclOf(r, f).xpath))
                got == obs[r][f].firstRet
            IN  /\ obs[r][f].errors = 0
                /\ IF want = <<>> THEN got = None
                   ELSE /\ got.tag = "record"
                        /\ recs[got.v].node = Head(want)
                        /\ recs[got.v].cls = DeclOf(r, f).cls
                /\ \A g \in 1..Len(gens) :
                      (/\ gens[g].kind = "children"
                       /\ gens[g].owner.rec = r
                       /\ gens[g].xpath = DeclOf(r, f).xpath
                       /\ gens[g].cls = DeclOf(r, f).cls)
                      => /\ gens[g].out # <<>> =>
                               /\ got.tag = "record"
                               /\ recs[got.v].node = recs[gens[g].out[1]].node
                         /\ (gens[g].done /\ gens[g].out = <<>>) => got = None

\* a FirstChild field returned a record although the first outer match was
\* rejected, and the Children field of the same record has yielded too
C6_Witness ==
    \E r \in 1..Len(recs) : \E g \in 1..Len(gens) :
        /\ recs[r].cls = "Foo"
        /\ obs[r]["first"].returns > 0
        /\ obs[r]["first"].firstRet.tag = "record"
        /\ ~RecordFilter(doc, "Bar", BarNode(1))
        /\ gens[g].kind = "children"
        /\ gens[g].owner.rec = r
        /\ gens[g].out # <<>>

\* C7: a Children field's sequence yields, for each outer match in order, no
\* sub-record if the sub-type's filter rejects the node and one bound to it
\* if it accepts; iterated to its end it has yielded exactly these.
C7_ChildrenFlatten ==
    \A g \in 1..Len(gens) :
        gens[g].kind = "children" =>
            LET want == Accepted(gens[g].cls,
                                 XPathEval(doc, gens[g].node, gens[g].xpath))
            IN  /\ BoundInOrder(gens[g].out, gens[g].cls, want)
                /\ gens[g].done => Len(gens[g].out) = Len(want)

\* a Children sequence over two or more matches was iterated to its end and
\* yielded for some of them only
C7_Witness ==
    \E g \in 1..Len(gens) :
        /\ gens[g].kind = "children"
        /\ gens[g].done
        /\ Len(gens[g].out) >= 1
        /\ Len(gens[g].out) < Len(gens[g].xs)

\* C10: field.value is called on an access exactly if no earlier access of
\* the cell returned a value other than None: the calls are the accesses up
\* to the first that returned such a value.  So a cell that returned False, 0
\* or '' has called it once, and one that returned None calls it every time.
C10_EvaluatedUntilNonNone ==
    \A r \in 1..Len(recs) : \A f \in CellsOf(r) :
        /\ obs[r][f].calls = IF obs[r][f].firstNonNone = 0 THEN obs[r][f].accesses
                             ELSE obs[r][f].firstNonNone
        /\ (/\ obs[r][f].returns > 0
            /\ obs[r][f].firstRet \in {Val("bool", FALSE), Val("int", 0),
                                       Val("str", <<>>)})
           => obs[r][f].calls = 1
        /\ (obs[r][f].returns > 0 /\ obs[r][f].firstRet = None)
           => obs[r][f].calls = obs[r][f].accesses

\* a cell whose value is False, 0 or '' was accessed twice and evaluated once
C10_Witness ==
    \E r \in 1..Len(recs) : \E f \in CellsOf(r) :
        /\ obs[r][f].accesses >= 2
        /\ obs[r][f].firstRet \in {Val("bool", FALSE), Val("int", 0),
                                   Val("str", <<>>)}
        /\ obs[r][f].returns >= 2
        /\ obs[r][f].calls = 1

=============================================================================
